---- MODULE Spec2Model ----
(***************************************************************************)
(* Model of reduce_image_size.py: the image shrinker (reduce_image_size),  *)
(* the folder walker (process_images) and the processed-folder ledger.     *)
(*                                                                         *)
(* Paths and file names are sequences of one-character strings, so that    *)
(* str.endswith, str.lower and os.path.splitext are computed on the        *)
(* characters as the code computes them.  A file's content is a record     *)
(* [fmt, img, mode, q, size]: the container format, the picture it holds,  *)
(* its colour mode, the encoder quality that produced it (100 for a file   *)
(* that no run has written) and its size in bytes.                         *)
(***************************************************************************)
EXTENDS Integers, Sequences, FiniteSets, TLC

VARIABLES
    excluded,   \* the excluded_folders argument, the same in every call
    fs,         \* the files on disk: path -> content, or Absent
    ledger,     \* lines of <root>/.processed_folders.txt
    run,        \* number of process_images calls started so far
    wpc,        \* position of the control thread of process_images
    aborted,    \* the last call of process_images ended by an exception
    snapshot,   \* processed_folders, read once at the start of the call
    stack,      \* folders os.walk still has to yield, next one first
    cur,        \* foldername of the folder being scanned / awaited
    scanq,      \* filenames of cur not yet looked at by the scan loop
    futures,    \* futures submitted for cur (named by their file_path)
    collected,  \* futures whose result() the as_completed loop has taken
    tasks,      \* every task submitted in this call: file_path -> task state
    fs0,        \* history: the files on disk when the current call started
    scanned,    \* history: folders whose files this call has scanned
    cut         \* history: the folder the previous call was processing when
                \* an exception ended it, <<>> if it returned

vars == <<excluded, fs, ledger, run, wpc, aborted, snapshot, stack, cur, scanq,
          futures, collected, tasks, fs0, scanned, cut>>

(***************************************************************************)
(* Bounds and program constants.                                           *)
(***************************************************************************)
MaxRuns == 2

DefaultMaxSize == 2000000

StartQuality == 80

QualityStep == 5

(***************************************************************************)
(* Strings.                                                                *)
(***************************************************************************)
Range(s) == {s[i] : i \in 1..Len(s)}

\* str.endswith(suffix)
EndsWith(s, suffix) ==
    /\ Len(suffix) <= Len(s)
    /\ SubSeq(s, Len(s) - Len(suffix) + 1, Len(s)) = suffix

LowerChar(c) ==
    CASE c = "J" -> "j"
      [] c = "P" -> "p"
      [] c = "G" -> "g"
      [] c = "E" -> "e"
      [] c = "N" -> "n"
      [] OTHER -> c

\* str.lower()
Lower(s) == [i \in 1..Len(s) |-> LowerChar(s[i])]

\* os.path.join(foldername, filename)
Join(foldername, filename) == foldername \o <<"/">> \o filename

\* index of the last "/" of p, 0 when there is none
LastSep(p) ==
    LET S == {i \in 1..Len(p) : p[i] = "/"}
    IN  IF S = {} THEN 0 ELSE CHOOSE i \in S : \A j \in S : j <= i

\* os.path.splitext(p): the index of the dot that starts the extension, 0 when
\* p has no extension (no dot in the last component, or only leading dots)
ExtDot(p) ==
    LET sep  == LastSep(p)
        Dots == {i \in (sep + 1)..Len(p) : p[i] = "."}
        last == CHOOSE i \in Dots : \A j \in Dots : j <= i
    IN  IF Dots = {} THEN 0
        ELSE IF \A k \in (sep + 1)..last : p[k] = "." THEN 0
        ELSE last

\* os.path.splitext(p)[0]
SplitextRoot(p) == IF ExtDot(p) = 0 THEN p ELSE SubSeq(p, 1, ExtDot(p) - 1)

\* os.path.splitext(p)[1]
SplitextExt(p) == IF ExtDot(p) = 0 THEN <<>> ELSE SubSeq(p, ExtDot(p), Len(p))

DotPng == <<".", "p", "n", "g">>
DotJpg == <<".", "j", "p", "g">>
DotJpeg == <<".", "j", "p", "e", "g">>

(***************************************************************************)
(* The tree the walker runs over.  Folders are never created or removed    *)
(* by the program; files are.                                              *)
(***************************************************************************)
Root == <<"r">>
DirA == Join(Root, <<"a">>)
DirB == Join(Root, <<"b">>)
DirBC == Join(DirB, <<"c">>)

Folders == {Root, DirA, DirB, DirBC}

Subfolders(f) ==
    IF f = Root THEN {DirA, DirB}
    ELSE IF f = DirB THEN {DirBC}
    ELSE {}

RECURSIVE Descendants(_)
Descendants(f) ==
    Subfolders(f) \cup UNION {Descendants(g) : g \in Subfolders(f)}

XPng == <<"x">> \o DotPng
XJpg == <<"x">> \o DotJpg
YJPG == <<"y", ".", "J", "P", "G">>
NTxt == <<"n", ".", "t", "x", "t">>

Names == {XPng, XJpg, YJPG, NTxt}

Paths == {Join(f, n) : f \in Folders, n \in Names}

FolderOf(p) == SubSeq(p, 1, LastSep(p) - 1)

Absent == [fmt |-> "NONE", img |-> "none", mode |-> "none", q |-> 0, size |-> 0]

\* the filenames os.walk lists for a folder
FilesIn(f, disk) == {n \in Names : disk[Join(f, n)] # Absent}

\* all orders in which a directory listing can come back
Orderings(S) ==
    {s \in [1..Cardinality(S) -> S] : \A i, j \in 1..Cardinality(S) : s[i] = s[j] => i = j}

(***************************************************************************)
(* Pictures and the encoder.  A picture is known by the size of its JPEG   *)
(* encoding at each quality: "easy" fits under the ceiling at the first    *)
(* encode, "hard" only at quality 0 (and then exactly at the ceiling),     *)
(* "huge" at no quality.                                                   *)
(***************************************************************************)
max_size == DefaultMaxSize

Pictures == {"easy", "hard", "huge"}

Qualities == {q \in 0..StartQuality : q % QualityStep = 0}

JpegSize(img, q) ==
    CASE img = "easy" -> 1000000 + 10000 * q
      [] img = "hard" -> max_size + 1000 * q
      [] OTHER        -> max_size + 500000 + 1000 * q

\* the size of a PNG encoding: the quality argument has no effect on it
PngSize(img) == max_size + 900000

\* the format Image.save picks from the extension of the path it writes
SaveFormat(path) ==
    IF Lower(SplitextExt(path)) = DotPng THEN "PNG" ELSE "JPEG"

\* the complete file img.save(path, optimize=True, quality=q) leaves
Encode(img, mode, path, q) ==
    [fmt  |-> SaveFormat(path),
     img  |-> img,
     mode |-> mode,
     q    |-> q,
     size |-> IF SaveFormat(path) = "PNG" THEN PngSize(img) ELSE JpegSize(img, q)]

\* the file as another thread sees it while img.save is writing it
Truncated(img, mode, path, q) ==
    [fmt |-> "PART", img |-> img, mode |-> mode, q |-> q, size |-> 0]

\* a file no run has written yet
Original(fmt, img, size) ==
    [fmt  |-> fmt,
     img  |-> img,
     mode |-> IF fmt = "PNG" THEN "RGBA" ELSE "RGB",
     q    |-> 100,
     size |-> size]

\* Image.open succeeds on the content
Decodable(c) == c # Absent /\ c.fmt \in {"PNG", "JPEG"}

(***************************************************************************)
(* reduce_image_size(file_path, max_size), one task per submitted file.    *)
(* A task is named by its file_path t.  Every access to the disk is a step *)
(* of its own, so that tasks of the same folder and the scan loop          *)
(* interleave as the threads of the pool do.  ThreadPoolExecutor() has at  *)
(* least five workers, more than the images of any folder here, so a       *)
(* submitted task may start at once.                                       *)
(***************************************************************************)
\* pc: the position in the call; new, quality, osize (original_size), img and
\* mode: its locals; seen: the file content the image was opened on while its
\* pixel data is still to be read from the open file, Absent once it is in
\* memory; outcome: history, the branch the call ended in
\* enc is history: the qualities of the saves the call has completed so far
NoTask == [pc |-> "none", new |-> <<>>, quality |-> 0, osize |-> 0,
           img |-> "none", mode |-> "none", seen |-> Absent, outcome |-> "none",
           enc |-> <<>>]

Queued == [NoTask EXCEPT !.pc = "queued"]

Finished(t) == tasks[t].pc \in {"done", "failed"}

InFlight(t) == tasks[t].pc \notin {"none", "done", "failed"}

\* the state of a task whose call has ended: its locals are gone, what is left
\* is the future's state and, as history, the branch the call ended in
Ended(pc, outcome) == [NoTask EXCEPT !.pc = pc, !.outcome = outcome]

Raise(t) == tasks' = [tasks EXCEPT ![t] = Ended("failed", "raised")]

\* new_file_path for a picture of format fmt stored at file_path
NewFilePath(file_path, fmt) ==
    IF fmt = "PNG" THEN SplitextRoot(file_path) \o DotJpg ELSE file_path

LoopContinuesPastFit(original_size, quality) == quality > 0

\* the while condition of the shrink loop
LoopContinues(original_size, quality) ==
    original_size > max_size /\ quality > 0

\* the branch taken after the loop: TRUE deletes the working file
StillTooLarge(size) == size > max_size

WalkerVars == <<excluded, ledger, run, wpc, aborted, snapshot, stack, cur,
                scanq, futures, collected, fs0, scanned, cut>>

\* the pixel data is read on the first save from a file that another task has
\* rewritten since Image.open read its header
StaleSource(t) ==
    /\ tasks[t].seen # Absent
    /\ fs[t] # Absent
    /\ fs[t] # tasks[t].seen

\* lines 19-24: open and decode; a PNG is converted to RGB, which reads its
\* pixel data, and gets a .jpg working path; any other image is read lazily
TOpen(t) ==
    /\ tasks[t].pc = "queued"
    /\ IF Decodable(fs[t])
       THEN tasks' = [tasks EXCEPT
                ![t].pc   = "getsize",
                ![t].new  = NewFilePath(t, fs[t].fmt),
                ![t].img  = fs[t].img,
                ![t].seen = IF fs[t].fmt = "PNG" THEN Absent ELSE fs[t],
                ![t].mode = IF fs[t].fmt = "PNG" THEN "RGB" ELSE fs[t].mode]
       ELSE Raise(t)
    /\ UNCHANGED fs
    /\ UNCHANGED WalkerVars

\* lines 26-27: original_size = getsize(new_file_path); quality = 80
TGetSize(t) ==
    /\ tasks[t].pc = "getsize"
    /\ IF fs[tasks[t].new] # Absent
       THEN tasks' = [tasks EXCEPT
                ![t].pc      = "loop",
                ![t].osize   = fs[tasks[t].new].size,
                ![t].quality = StartQuality]
       ELSE Raise(t)
    /\ UNCHANGED fs
    /\ UNCHANGED WalkerVars

\* lines 29-31: the loop test, quality -= 5, and img.save reading the pixel
\* data if it has not been read yet and opening new_file_path for writing,
\* which truncates it.  Reading a source that was rewritten under the open
\* file either goes through or raises a decode error.
TLoop(t) ==
    /\ tasks[t].pc = "loop"
    /\ IF LoopContinues(tasks[t].osize, tasks[t].quality)
       THEN \/ /\ tasks' = [tasks EXCEPT
                       ![t].pc      = "write",
                       ![t].seen    = Absent,
                       ![t].quality = tasks[t].quality - QualityStep]
               /\ fs' = [fs EXCEPT ![tasks[t].new] =
                       Truncated(tasks[t].img, tasks[t].mode, tasks[t].new,
                                 tasks[t].quality - QualityStep)]
            \/ /\ StaleSource(t)
               /\ Raise(t)
               /\ UNCHANGED fs
       ELSE /\ tasks' = [tasks EXCEPT ![t].pc = "check"]
            /\ UNCHANGED fs
    /\ UNCHANGED WalkerVars

\* line 31: img.save writes the encoding and closes the file
TWrite(t) ==
    /\ tasks[t].pc = "write"
    /\ fs' = [fs EXCEPT ![tasks[t].new] =
           Encode(tasks[t].img, tasks[t].mode, tasks[t].new, tasks[t].quality)]
    /\ tasks' = [tasks EXCEPT
           ![t].pc  = "resize",
           ![t].enc = Append(tasks[t].enc, tasks[t].quality)]
    /\ UNCHANGED WalkerVars

\* line 32: original_size = getsize(new_file_path)
TResize(t) ==
    /\ tasks[t].pc = "resize"
    /\ IF fs[tasks[t].new] # Absent
       THEN tasks' = [tasks EXCEPT
                ![t].pc    = "loop",
                ![t].osize = fs[tasks[t].new].size]
       ELSE Raise(t)
    /\ UNCHANGED fs
    /\ UNCHANGED WalkerVars

\* line 34: if getsize(new_file_path) > max_size
TCheck(t) ==
    /\ tasks[t].pc = "check"
    /\ IF fs[tasks[t].new] # Absent
       THEN tasks' = [tasks EXCEPT ![t].pc =
                IF StillTooLarge(fs[tasks[t].new].size) THEN "rmnew" ELSE "rmorig"]
       ELSE Raise(t)
    /\ UNCHANGED fs
    /\ UNCHANGED WalkerVars

\* line 35: os.remove(new_file_path)
TRemoveNew(t) ==
    /\ tasks[t].pc = "rmnew"
    /\ IF fs[tasks[t].new] # Absent
       THEN /\ fs' = [fs EXCEPT ![tasks[t].new] = Absent]
            /\ tasks' = [tasks EXCEPT ![t] = Ended("done", "unshrunk")]
       ELSE /\ Raise(t)
            /\ UNCHANGED fs
    /\ UNCHANGED WalkerVars

\* line 37: os.remove(file_path)
TRemoveOrig(t) ==
    /\ tasks[t].pc = "rmorig"
    /\ IF fs[t] # Absent
       THEN /\ fs' = [fs EXCEPT ![t] = Absent]
            /\ tasks' = [tasks EXCEPT ![t].pc = "rename"]
       ELSE /\ Raise(t)
            /\ UNCHANGED fs
    /\ UNCHANGED WalkerVars

\* line 38: os.rename(new_file_path, file_path)
TRename(t) ==
    /\ tasks[t].pc = "rename"
    /\ IF fs[tasks[t].new] # Absent
       THEN /\ fs' = [fs EXCEPT ![t] = fs[tasks[t].new],
                                ![tasks[t].new] = IF tasks[t].new = t
                                                  THEN fs[tasks[t].new]
                                                  ELSE Absent]
            /\ tasks' = [tasks EXCEPT ![t] = Ended("done", "replaced")]
       ELSE /\ Raise(t)
            /\ UNCHANGED fs
    /\ UNCHANGED WalkerVars

(***************************************************************************)
(* process_images(root_folder, excluded_folders, max_size): the single     *)
(* control thread.  wpc is "idle" between calls, "walk" at the head of the *)
(* os.walk loop, "scan" inside the filename loop, "wait" inside the        *)
(* as_completed loop, and "shutdown" while an exception leaves the         *)
(* executor's with block, which waits for every submitted task.            *)
(***************************************************************************)
\* line 64: any(foldername.endswith(folder) for folder in excluded_folders)
IsExcluded(foldername) ==
    \E i \in 1..Len(excluded) : EndsWith(foldername, excluded[i])

\* the slip of rebinding the name (subfolders = []), which prunes nothing
PrunedSubfoldersRebound(subfolders) == subfolders

\* line 65: subfolders[:] = [] leaves os.walk nothing to descend into
PrunedSubfolders(subfolders) == {}

\* the slip of keeping only the last line read from the ledger
AlreadyProcessedLastLineOnly(foldername) ==
    snapshot # <<>> /\ foldername = snapshot[Len(snapshot)]

\* the slip of reading the ledger with readlines(), which keeps each line's
\* newline, so that no foldername equals a line
AlreadyProcessedUnstripped(foldername) ==
    foldername \in {line \o <<"\n">> : line \in Range(snapshot)}

\* line 68: foldername in processed_folders
AlreadyProcessed(foldername) == foldername \in Range(snapshot)

\* line 71: filename.lower().endswith(('.png', '.jpg', '.jpeg'))
IsImageName(filename) ==
    \E ext \in {DotPng, DotJpg, DotJpeg} : EndsWith(Lower(filename), ext)

\* line 73: os.path.getsize(file_path) > max_size
Oversized(content) == content.size > max_size

\* the slip of appending without the as_completed loop
BatchNotAwaited == TRUE

\* lines 76-77: the as_completed loop has yielded every future of the folder
BatchAwaited == futures \subseteq collected

\* lines 55-62: read the ledger once, create the pool, start the walk
StartRun ==
    /\ wpc = "idle"
    /\ run < MaxRuns
    /\ run' = run + 1
    /\ snapshot' = ledger
    /\ stack' = <<Root>>
    /\ wpc' = "walk"
    /\ aborted' = FALSE
    /\ tasks' = [p \in Paths |-> NoTask]
    /\ futures' = {}
    /\ collected' = {}
    /\ scanq' = <<>>
    /\ cur' = <<>>
    /\ fs0' = fs
    /\ scanned' = {}
    /\ cut' = IF aborted THEN cur ELSE <<>>
    /\ UNCHANGED <<excluded, fs, ledger>>

\* lines 63-66: os.walk yields an excluded folder; it is pruned
WalkExcluded ==
    /\ wpc = "walk"
    /\ stack # <<>>
    /\ IsExcluded(Head(stack))
    /\ \E order \in Orderings(PrunedSubfolders(Subfolders(Head(stack)))) :
           stack' = order \o Tail(stack)
    /\ UNCHANGED <<excluded, fs, ledger, run, wpc, aborted, snapshot, cur, scanq,
                   futures, collected, tasks, fs0, scanned, cut>>

\* lines 63-68: os.walk yields a folder that is in the ledger snapshot
WalkSkip ==
    /\ wpc = "walk"
    /\ stack # <<>>
    /\ ~IsExcluded(Head(stack))
    /\ AlreadyProcessed(Head(stack))
    /\ \E order \in Orderings(Subfolders(Head(stack))) :
           stack' = order \o Tail(stack)
    /\ UNCHANGED <<excluded, fs, ledger, run, wpc, aborted, snapshot, cur, scanq,
                   futures, collected, tasks, fs0, scanned, cut>>

\* lines 63-70: os.walk yields a folder to process, with its listing
WalkScan ==
    /\ wpc = "walk"
    /\ stack # <<>>
    /\ ~IsExcluded(Head(stack))
    /\ ~AlreadyProcessed(Head(stack))
    /\ \E order \in Orderings(Subfolders(Head(stack))) :
           stack' = order \o Tail(stack)
    /\ cur' = Head(stack)
    /\ \E filenames \in Orderings(FilesIn(Head(stack), fs)) :
           /\ scanq' = filenames
           /\ wpc' = IF filenames = <<>> THEN "wait" ELSE "scan"
    /\ futures' = {}
    /\ collected' = {}
    /\ scanned' = scanned \cup {Head(stack)}
    /\ UNCHANGED <<excluded, fs, ledger, run, aborted, snapshot, tasks, fs0,
                   cut>>

\* line 62 (end of the with block): the walk is over, the call returns
WalkEnd ==
    /\ wpc = "walk"
    /\ stack = <<>>
    /\ wpc' = "idle"
    /\ UNCHANGED <<excluded, fs, ledger, run, aborted, snapshot, stack, cur, scanq,
                   futures, collected, tasks, fs0, scanned, cut>>

\* the slip of going on to the next folder right after the last submit
AfterScanResumesWalk == "walk"

\* lines 70-76: after the last filename the walker enters the as_completed loop
AfterScan == IF Tail(scanq) = <<>> THEN "wait" ELSE "scan"

\* lines 70-73: a filename that is no image name, or an image not over max_size
ScanSkip ==
    /\ wpc = "scan"
    /\ \/ ~IsImageName(Head(scanq))
       \/ /\ fs[Join(cur, Head(scanq))] # Absent
          /\ ~Oversized(fs[Join(cur, Head(scanq))])
    /\ scanq' = Tail(scanq)
    /\ wpc' = AfterScan
    /\ UNCHANGED <<excluded, fs, ledger, run, aborted, snapshot, stack, cur,
                   futures, collected, tasks, fs0, scanned, cut>>

\* lines 70-74: an oversized image: executor.submit(reduce_image_size, ...)
ScanSubmit ==
    /\ wpc = "scan"
    /\ IsImageName(Head(scanq))
    /\ fs[Join(cur, Head(scanq))] # Absent
    /\ Oversized(fs[Join(cur, Head(scanq))])
    /\ tasks' = [tasks EXCEPT ![Join(cur, Head(scanq))] = Queued]
    /\ futures' = futures \cup {Join(cur, Head(scanq))}
    /\ scanq' = Tail(scanq)
    /\ wpc' = AfterScan
    /\ UNCHANGED <<excluded, fs, ledger, run, aborted, snapshot, stack, cur,
                   collected, fs0, scanned, cut>>

\* line 73: getsize raises, a task of this folder has removed the listed file
ScanRaise ==
    /\ wpc = "scan"
    /\ IsImageName(Head(scanq))
    /\ fs[Join(cur, Head(scanq))] = Absent
    /\ wpc' = "shutdown"
    /\ UNCHANGED <<excluded, fs, ledger, run, aborted, snapshot, stack, cur, scanq,
                   futures, collected, tasks, fs0, scanned, cut>>

\* lines 76-77: as_completed yields a future that returned; result() is None
CollectOk ==
    /\ wpc = "wait"
    /\ \E t \in futures \ collected :
           /\ tasks[t].pc = "done"
           /\ collected' = collected \cup {t}
    /\ UNCHANGED <<excluded, fs, ledger, run, wpc, aborted, snapshot, stack, cur,
                   scanq, futures, tasks, fs0, scanned, cut>>

\* lines 76-77: as_completed yields a future that raised; result() re-raises
CollectRaise ==
    /\ wpc = "wait"
    /\ \E t \in futures \ collected : tasks[t].pc = "failed"
    /\ wpc' = "shutdown"
    /\ UNCHANGED <<excluded, fs, ledger, run, aborted, snapshot, stack, cur, scanq,
                   futures, collected, tasks, fs0, scanned, cut>>

\* lines 79-80: append foldername to the ledger file
AppendLedger ==
    /\ wpc = "wait"
    /\ BatchAwaited
    /\ ledger' = Append(ledger, cur)
    /\ wpc' = "walk"
    /\ UNCHANGED <<excluded, fs, run, aborted, snapshot, stack, cur, scanq,
                   futures, collected, tasks, fs0, scanned, cut>>

\* line 62: the exception leaves the with block; shutdown(wait=True) returns
\* once every submitted task has ended, then the call raises
Shutdown ==
    /\ wpc = "shutdown"
    /\ \A t \in Paths : ~InFlight(t)
    /\ wpc' = "idle"
    /\ aborted' = TRUE
    /\ UNCHANGED <<excluded, fs, ledger, run, snapshot, stack, cur, scanq,
                   futures, collected, tasks, fs0, scanned, cut>>

(***************************************************************************)
(* The initial trees: r/a may hold x.png and x.jpg, r/b holds y.JPG,        *)
(* r/b/c may hold a large x.jpg, r holds a large n.txt.  No call has run   *)
(* yet.  The ledger file itself, a name that is no image name, is left out *)
(* of the listing of r.                                                    *)
(***************************************************************************)
Big == max_size + 1000000
Small == max_size - 1000000

Corrupt == [fmt |-> "BAD", img |-> "none", mode |-> "none", q |-> 100, size |-> Big]

OptAPng == {Absent, Original("PNG", "easy", Big), Original("PNG", "huge", Big),
            Corrupt}

OptAJpg == {Absent, Original("JPEG", "easy", Small), Original("JPEG", "easy", Big)}

OptBJpg == {Original("JPEG", "easy", Small), Original("JPEG", "easy", Big),
            Original("JPEG", "hard", Big), Original("JPEG", "huge", Big)}

OptCJpg == {Absent, Original("JPEG", "easy", Big)}

\* the ledger a call finds: none yet, or one an earlier call over a tree that
\* has changed since has left
LedgerChoices == {<<>>, <<DirA>>}

\* the tree whose x.png fits at no quality, the one with two long shrink loops
\* side by side, is taken with the plain surroundings only
PlainAround(ap, bj, cj) ==
    (ap = Original("PNG", "huge", Big)) =>
        /\ bj = Original("JPEG", "easy", Small)
        /\ cj = Absent
        /\ excluded = <<>>
        /\ ledger = <<>>

ExcludedChoices == {<<>>, <<<<"b">>>>, <<<<"c">>>>}

Init ==
    /\ excluded \in ExcludedChoices
    /\ ledger \in LedgerChoices
    /\ \E ap \in OptAPng, aj \in OptAJpg, bj \in OptBJpg, cj \in OptCJpg :
           /\ PlainAround(ap, bj, cj)
           /\ fs = [p \in Paths |->
                       CASE p = Join(DirA, XPng)  -> ap
                         [] p = Join(DirA, XJpg)  -> aj
                         [] p = Join(DirB, YJPG)  -> bj
                         [] p = Join(DirBC, XJpg) -> cj
                         [] p = Join(Root, NTxt)  ->
                                [Corrupt EXCEPT !.fmt = "TXT"]
                         [] OTHER -> Absent]
    /\ run = 0
    /\ wpc = "idle"
    /\ aborted = FALSE
    /\ snapshot = <<>>
    /\ stack = <<>>
    /\ cur = <<>>
    /\ scanq = <<>>
    /\ futures = {}
    /\ collected = {}
    /\ tasks = [p \in Paths |-> NoTask]
    /\ fs0 = fs
    /\ scanned = {}
    /\ cut = <<>>

Next ==
    \/ StartRun
    \/ WalkExcluded
    \/ WalkSkip
    \/ WalkScan
    \/ WalkEnd
    \/ ScanSkip
    \/ ScanSubmit
    \/ ScanRaise
    \/ CollectOk
    \/ CollectRaise
    \/ AppendLedger
    \/ Shutdown
    \/ \E t \in Paths : TOpen(t)
    \/ \E t \in Paths : TGetSize(t)
    \/ \E t \in Paths : TLoop(t)
    \/ \E t \in Paths : TWrite(t)
    \/ \E t \in Paths : TResize(t)
    \/ \E t \in Paths : TCheck(t)
    \/ \E t \in Paths : TRemoveNew(t)
    \/ \E t \in Paths : TRemoveOrig(t)
    \/ \E t \in Paths : TRename(t)

Spec == Init /\ [][Next]_vars

(***************************************************************************)
(* The same program with the process killed at any moment of a call (a     *)
(* crash, a kill signal, a power cut): the control thread and the worker   *)
(* threads stop where they are, memory is gone, the disk stays as it is,   *)
(* half-written files included.  Whether a call was cut off by the kill or *)
(* by an exception of its own, the next call starts from the disk alone.   *)
(***************************************************************************)
Crash ==
    /\ wpc # "idle"
    /\ run < MaxRuns
    /\ wpc' = "idle"
    /\ aborted' = TRUE
    /\ cur' = IF wpc = "walk" THEN <<>> ELSE cur
    /\ tasks' = [p \in Paths |-> NoTask]
    /\ stack' = <<>>
    /\ scanq' = <<>>
    /\ futures' = {}
    /\ collected' = {}
    /\ UNCHANGED <<excluded, fs, ledger, run, snapshot, fs0, scanned, cut>>

\* the trees taken with kills: those without the x.png that fits at no quality
InitCrash ==
    /\ Init
    /\ fs[Join(DirA, XPng)].img # "huge"

NextCrash == Next \/ Crash

SpecCrash == InitCrash /\ [][NextCrash]_vars

(***************************************************************************)
(* Vocabulary of the properties.                                           *)
(***************************************************************************)
\* a call of process_images has returned or raised, and no other has begun
RunOver == wpc = "idle" /\ run > 0

\* the ledger lines the current call has appended
AppendedThisRun == SubSeq(ledger, Len(snapshot) + 1, Len(ledger))

\* the current call has submitted a shrink task for the path
Submitted(p) == tasks[p].pc # "none"

\* the task has started and has not ended: it holds its two paths
Running(t) == tasks[t].pc \notin {"none", "queued", "done", "failed"}

\* the folder is excluded by name, or lies below an excluded folder
Shielded(f) ==
    \/ IsExcluded(f)
    \/ \E g \in Folders : IsExcluded(g) /\ f \in Descendants(g)

\* the folder holds an image file larger than max_size
HoldsOversized(f, disk) ==
    \E n \in FilesIn(f, disk) : IsImageName(n) /\ Oversized(disk[Join(f, n)])

\* some encode of the file's picture at a quality of the ladder fits
CanFit(c, p) ==
    /\ Decodable(c)
    /\ \E q \in Qualities :
           Encode(c.img, "RGB", NewFilePath(p, c.fmt), q).size <= max_size

(***************************************************************************)
(* C1: every dispatched image that some quality in [0,80] step 5 brings    *)
(* under max_size is, after the run, a file at its original path of size   *)
(* at most max_size.                                                       *)
(***************************************************************************)
C1_ShrunkUnderCeiling ==
    RunOver =>
        \A p \in Paths :
            (Submitted(p) /\ CanFit(fs0[p], p)) =>
                (fs[p] # Absent /\ fs[p].size <= max_size)

(***************************************************************************)
(* C2: an image that no quality brings under max_size is, once its task    *)
(* has ended, still at its original path with its original bytes.          *)
(***************************************************************************)
C2_UnshrinkableUntouched ==
    \A p \in Paths :
        (Finished(p) /\ Decodable(fs0[p]) /\ ~CanFit(fs0[p], p)) =>
            fs[p] = fs0[p]

(***************************************************************************)
(* C3: however a shrink task ends, the original path holds a file that is  *)
(* either the original bytes or a complete encoding of at most max_size.   *)
(***************************************************************************)
C3_NeverMissingNorPartial ==
    \A p \in Paths :
        Finished(p) =>
            /\ fs[p] # Absent
            /\ \/ fs[p] = fs0[p]
               \/ Decodable(fs[p]) /\ fs[p].size <= max_size

(***************************************************************************)
(* C4: a folder whose path is in the ledger when a call starts is not      *)
(* scanned by that call, gets no shrink task for any of its files, and is  *)
(* not appended to the ledger again.                                       *)
(***************************************************************************)
C4_LedgerFolderSkipped ==
    run > 0 =>
        \A f \in Range(snapshot) :
            /\ f \notin scanned
            /\ \A p \in Paths : FolderOf(p) = f => ~Submitted(p)
            /\ f \notin Range(AppendedThisRun)

\* a complete call has walked past a ledger folder that holds oversized images
C4_Witness ==
    /\ RunOver
    /\ ~aborted
    /\ \E f \in Range(snapshot) : ~Shielded(f) /\ HoldsOversized(f, fs)

(***************************************************************************)
(* C5: the second of two calls in succession submits no shrink task and    *)
(* leaves the ledger as it found it.                                       *)
(***************************************************************************)
C5_SecondRunIdle ==
    run = 2 =>
        /\ \A p \in Paths : ~Submitted(p)
        /\ ledger = snapshot

(***************************************************************************)
(* C6: an excluded folder and every folder below it is never scanned, gets *)
(* no shrink task for any of its files, and is never appended to the       *)
(* ledger.                                                                 *)
(***************************************************************************)
C6_ExcludedUntouched ==
    run > 0 =>
        \A f \in Folders :
            Shielded(f) =>
                /\ f \notin scanned
                /\ \A p \in Paths : FolderOf(p) = f => ~Submitted(p)
                /\ f \notin Range(AppendedThisRun)

\* a complete call has pruned an excluded folder that has a subfolder with an
\* oversized image
C6_Witness ==
    /\ RunOver
    /\ ~aborted
    /\ \E f \in Folders :
           /\ IsExcluded(f)
           /\ \E g \in Descendants(f) : ~IsExcluded(g) /\ HoldsOversized(g, fs)

(***************************************************************************)
(* C7: when a shrink task raises, the tasks submitted with it still run to *)
(* their end, and every folder that is neither excluded nor in the ledger  *)
(* snapshot is still scanned: the walk is not aborted.                     *)
(***************************************************************************)
C7_FailureDoesNotAbortWalk ==
    (RunOver /\ \E t \in Paths : tasks[t].outcome = "raised") =>
        /\ \A t \in Paths : Submitted(t) => Finished(t)
        /\ \A f \in Folders :
               (~Shielded(f) /\ f \notin Range(snapshot)) => f \in scanned

(***************************************************************************)
(* C8: once the tasks of a scanned folder have all ended, the folder is    *)
(* appended to the ledger, whether or not any of them raised.              *)
(***************************************************************************)
C8_AppendedDespiteFailure ==
    RunOver =>
        \A f \in scanned :
            (\A p \in Paths : FolderOf(p) = f => ~InFlight(p)) =>
                f \in Range(ledger)

(***************************************************************************)
(* C9: a folder that the current call has appended to the ledger has no    *)
(* shrink task pending or running.                                         *)
(***************************************************************************)
C9_AppendOnlyAfterTasks ==
    run > 0 =>
        \A p \in Paths :
            FolderOf(p) \in Range(AppendedThisRun) => ~InFlight(p)

\* a folder for which a task was submitted has been appended
C9_Witness ==
    \E p \in Paths : Submitted(p) /\ FolderOf(p) \in Range(AppendedThisRun)

(***************************************************************************)
(* C10: two shrink tasks that run at the same time never hold a path in    *)
(* common: the input path and working path of one are not those of the     *)
(* other.                                                                  *)
(***************************************************************************)
C10_TasksTouchDisjointPaths ==
    \A t1, t2 \in Paths :
        (t1 # t2 /\ Running(t1) /\ Running(t2)) =>
            {t1, tasks[t1].new} \cap {t2, tasks[t2].new} = {}

(***************************************************************************)
(* C11: after a run, a PNG whose shrink task ended in the success branch   *)
(* is, at its original path, the JPEG encoding of its own picture          *)
(* converted to RGB at a quality of the ladder: not PNG data, and not what *)
(* another file of the folder held.                                        *)
(***************************************************************************)
C11_PngReplacedByOwnJpeg ==
    RunOver =>
        \A p \in Paths :
            (fs0[p].fmt = "PNG" /\ tasks[p].outcome = "replaced") =>
                /\ \E q \in Qualities :
                       fs[p] = Encode(fs0[p].img, "RGB", NewFilePath(p, "PNG"), q)
                /\ \A other \in Paths \ {p} : fs[p] # fs0[other]

\* the tree of the spec's scenarios at the start of a call: a 3,000,000-byte
\* PNG alone in r/a, a 1,000,000-byte JPEG in r/b, nothing below r/b
ScenarioTree(disk) ==
    /\ disk[Join(DirA, XPng)] = Original("PNG", "easy", Big)
    /\ disk[Join(DirA, XJpg)] = Absent
    /\ disk[Join(DirB, YJPG)] = Original("JPEG", "easy", Small)
    /\ disk[Join(DirBC, XJpg)] = Absent

(***************************************************************************)
(* C12: when a call is over, every folder that is neither excluded nor in  *)
(* the ledger snapshot has been appended to the ledger; in the scenario    *)
(* tree, with nothing excluded and no ledger yet, r/a and r/b both are.    *)
(***************************************************************************)
C12_EveryFolderAppended ==
    RunOver =>
        /\ \A f \in Folders :
               (~Shielded(f) /\ f \notin Range(snapshot)) => f \in Range(ledger)
        /\ (ScenarioTree(fs0) /\ excluded = <<>> /\ snapshot = <<>>) =>
               (DirA \in Range(ledger) /\ DirB \in Range(ledger))


C14_QualityFloorEndsUnshrunk ==
    /\ [](\A t \in Paths :
              /\ tasks[t].quality \in 0..StartQuality
              /\ tasks[t].quality % QualityStep = 0)
    /\ [][\A t \in Paths :
              (/\ tasks[t].pc \in {"check", "rmnew"}
               /\ tasks[t].quality = 0
               /\ tasks[t].osize > max_size) =>
                  \/ tasks'[t].pc \in {"check", "rmnew"}
                  \/ tasks'[t].outcome = "unshrunk"]_vars


(***************************************************************************)
(* C15: shrink tasks that are pending or running at the same time belong   *)
(* to one folder, and of the folders for which the current call has        *)
(* submitted tasks every one but the folder being processed is already in  *)
(* the ledger.  Both hold in every state, those of a call that a raising   *)
(* task is aborting included.                                              *)
(***************************************************************************)
C15_NoCrossFolderOverlap ==
    /\ \A t1, t2 \in Paths :
           (InFlight(t1) /\ InFlight(t2)) => FolderOf(t1) = FolderOf(t2)
    /\ \A t1, t2 \in Paths :
           (Submitted(t1) /\ Submitted(t2) /\ FolderOf(t1) # FolderOf(t2)) =>
               \/ FolderOf(t1) \in Range(AppendedThisRun)
               \/ FolderOf(t2) \in Range(AppendedThisRun)
    /\ \A t \in Paths :
           (Submitted(t) /\ FolderOf(t) \notin Range(AppendedThisRun)) =>
               FolderOf(t) = cur

\* a task of a second folder is pending or running after the tasks of the
\* first folder have ended and that folder is in the ledger
C15_Witness ==
    \E t1, t2 \in Paths :
        /\ FolderOf(t1) # FolderOf(t2)
        /\ Finished(t1)
        /\ FolderOf(t1) \in Range(AppendedThisRun)
        /\ InFlight(t2)


(***************************************************************************)
(* C16: a file that a call found not larger than max_size, or whose name   *)
(* has no image extension, holds the same content at every moment of the   *)
(* call: it is never written, deleted or renamed.                          *)
(***************************************************************************)
C16_SmallAndNonImagesUntouched ==
    run > 0 =>
        \A p \in Paths :
            (/\ fs0[p] # Absent
             /\ \/ ~Oversized(fs0[p])
                \/ \A n \in Names : p = Join(FolderOf(p), n) => ~IsImageName(n)) =>
                fs[p] = fs0[p]


\* the path names an image file for the scan loop
IsImagePath(p) == \E n \in Names : p = Join(FolderOf(p), n) /\ IsImageName(n)

(***************************************************************************)
(* C17: the folder a call was processing when an exception cut it off is   *)
(* not in the ledger the next call reads; that call scans the folder again *)
(* and submits a shrink task for exactly those of its files that are image *)
(* files larger than max_size when the call starts.                        *)
(***************************************************************************)
C17_CutFolderProcessedAgain ==
    (RunOver /\ cut # <<>>) =>
        /\ cut \notin Range(snapshot)
        /\ cut \in scanned
        /\ \A p \in Paths :
               FolderOf(p) = cut =>
                   (Submitted(p) <=>
                       (fs0[p] # Absent /\ IsImagePath(p) /\ Oversized(fs0[p])))


(***************************************************************************)
(* C18: after a first call over the scenario tree with excluded_folders =  *)
(* ['b'] and no ledger yet, the ledger holds the line r/a and no other.    *)
(***************************************************************************)
C18_OnlyFolderAInLedger ==
    (/\ RunOver
     /\ ScenarioTree(fs0)
     /\ excluded = <<<<"b">>>>
     /\ snapshot = <<>>) =>
        ledger = <<DirA>>


(***************************************************************************)
(* C19: over any sequence of calls, returned or ended by an exception, the *)
(* ledger never holds the same folder path on two lines, and every step    *)
(* leaves the ledger as it is or appends one line to it: no line is ever   *)
(* removed or changed.                                                     *)
(***************************************************************************)
C19_LedgerAppendOnlyNoDuplicates ==
    /\ [](\A i, j \in 1..Len(ledger) : ledger[i] = ledger[j] => i = j)
    /\ [][\/ ledger' = ledger
          \/ \E f \in Folders : ledger' = Append(ledger, f)]_vars

\* a second call has appended to the ledger that the first call left
C19_Witness ==
    /\ RunOver
    /\ run = 2
    /\ snapshot # <<>>
    /\ Len(ledger) > Len(snapshot)
    /\ \E f \in Range(AppendedThisRun) : ~HoldsOversized(f, fs0) \/ aborted

====
